---- MODULE Spec2Model ----
(***************************************************************************)
(* Model of the ecosyste.ms Go client (client.go, purl.go).                *)
(*                                                                         *)
(* Go strings that the code concatenates or tests for emptiness are        *)
(* sequences of one-character strings ("" is << >>); strings the code only *)
(* compares or uses as map keys are TLA+ strings.  A Go pointer is a       *)
(* sequence of length 0 (nil) or 1 (a pointer to the element).             *)
(***************************************************************************)
EXTENDS Integers, Sequences, FiniteSets, TLC

VARIABLES
    client,     \* the *Client the caller holds: Nil or Ptr(client record)
    lastNew,    \* what the last NewClient call did (ghost)
    stack,      \* the operations in progress, outermost first
    pc,         \* "idle" | "waiting" (a request is in flight) | "done"
    args,       \* the arguments of the operation that talks to the backend
    locals,     \* its local variables
    requests,   \* the requests sent during the current call, in order (ghost)
    responses,  \* the responses received during the current call (ghost)
    ret         \* what the outermost operation returned

vars == <<client, lastNew, stack, pc, args, locals, requests, responses, ret>>

-----------------------------------------------------------------------------
(* Bounds of the model *)

MaxOpts == 1          \* options passed to one NewClient call
MaxPurls == 250       \* longest input list of BulkLookup
MaxPages == 2         \* pages one GetAllVersions call is followed through

-----------------------------------------------------------------------------
(* Program constants *)

DefaultPackagesServer == "https://packages.ecosyste.ms/api/v1"
DefaultReposServer == "https://repos.ecosyste.ms/api/v1"
MaxBulkLookupSize == 100
PerPage == 100
StatusOK == 200
StatusNotFound == 404

Nil == << >>
Ptr(v) == <<v>>
Deref(p) == p[1]

EmptyString == << >>

-----------------------------------------------------------------------------
(* Values the caller and the backend choose from *)

UserAgents == { <<"a", "/", "1">>, <<"b">> }
Emails == { <<"m", "@", "x">> }
ApiKeys == { <<"k", "1">> }
CustomServer == "https://custom.server"
BadServer == "::not a url"

\* The error value of Go: nil, or an error with its format, the status code it
\* carries (0: none) and the wrapped or embedded text ("" : none).
Err(msg, status, detail) == Ptr([msg |-> msg, status |-> status, detail |-> detail])

-----------------------------------------------------------------------------
(* Client configuration: client.go 31-74, 111-166 *)

Option(kind, str, server, http) ==
    [kind |-> kind, str |-> str, server |-> server, http |-> http]

WithPackagesServer(server) == Option("WithPackagesServer", EmptyString, server, "")
WithReposServer(server) == Option("WithReposServer", EmptyString, server, "")
WithHTTPClient(c) == Option("WithHTTPClient", EmptyString, "", c)
WithFrom(email) == Option("WithFrom", email, "", "")
WithAPIKey(key) == Option("WithAPIKey", key, "", "")

\* opt(cfg)
ApplyOption(cfg, opt) ==
    CASE opt.kind = "WithPackagesServer" -> [cfg EXCEPT !.packagesServer = opt.server]
      [] opt.kind = "WithReposServer" -> [cfg EXCEPT !.reposServer = opt.server]
      [] opt.kind = "WithHTTPClient" -> [cfg EXCEPT !.httpClient = opt.http]
      [] opt.kind = "WithFrom" -> [cfg EXCEPT !.fromEmail = opt.str]
      [] opt.kind = "WithAPIKey" -> [cfg EXCEPT !.apiKey = opt.str]

RECURSIVE ApplyOptions(_, _)
ApplyOptions(cfg, opts) ==
    IF opts = << >> THEN cfg
    ELSE ApplyOptions(ApplyOption(cfg, Head(opts)), Tail(opts))

DefaultConfig(userAgent) ==
    [packagesServer |-> DefaultPackagesServer,
     reposServer |-> DefaultReposServer,
     httpClient |-> "default",
     userAgent |-> userAgent,
     fromEmail |-> EmptyString,
     apiKey |-> EmptyString]

Bearer == <<"B", "e", "a", "r", "e", "r", " ">>

\* The key sent bare, without the scheme word.
addHeadersNoBearer(cfg) ==
    {<<"User-Agent", cfg.userAgent>>}
    \cup (IF cfg.fromEmail # EmptyString THEN {<<"From", cfg.fromEmail>>} ELSE {})
    \cup (IF cfg.apiKey # EmptyString THEN {<<"Authorization", cfg.apiKey>>} ELSE {})

\* The request editor: the headers it sets on a request.
addHeaders(cfg) ==
    {<<"User-Agent", cfg.userAgent>>}
    \cup (IF cfg.fromEmail # EmptyString THEN {<<"From", cfg.fromEmail>>} ELSE {})
    \cup (IF cfg.apiKey # EmptyString
          THEN {<<"Authorization", Bearer \o cfg.apiKey>>} ELSE {})

\* The outcomes of the generated constructor for a server address: it cannot
\* fail for a well-formed address, and may or may not reject another one.
NewClientWithResponsesErrs(server) ==
    IF server = BadServer THEN {TRUE, FALSE} ELSE {FALSE}

\* A generated client: server address, transport and the request editor's
\* configuration.
SubClient(server, cfg) == [Server |-> server, Client |-> cfg.httpClient, editor |-> cfg]

Options ==
    {WithPackagesServer(CustomServer), WithPackagesServer(BadServer),
     WithReposServer(CustomServer), WithReposServer(BadServer),
     WithHTTPClient("custom")}
    \cup {WithFrom(e) : e \in Emails \cup {EmptyString}}
    \cup {WithAPIKey(k) : k \in ApiKeys \cup {EmptyString}}

OptionLists == UNION {[1..n -> Options] : n \in 0..MaxOpts}

NoArgs == [purls |-> << >>, registry |-> "", name |-> EmptyString,
           version |-> EmptyString, url |-> "", purl |-> Nil]
NoLocals == [i |-> 0, results |-> << >>, page |-> 0, allVersions |-> << >>]
NoRet == [val |-> Nil, err |-> Nil]

NoNew == [called |-> FALSE, userAgent |-> EmptyString, nopts |-> 0, applied |-> 0,
          failed |-> FALSE, err |-> Nil]

\* No call is in progress and the result of the call before was taken.
Idle == pc = "idle"

\* The caller takes the result of a finished call; the client is as it was.
TakeResult ==
    /\ pc = "done"
    /\ pc' = "idle"
    /\ stack' = << >>
    /\ args' = NoArgs
    /\ locals' = NoLocals
    /\ requests' = << >>
    /\ responses' = << >>
    /\ ret' = NoRet
    /\ UNCHANGED <<client, lastNew>>

\* The check of the identifying string left out.
UserAgentNeverMissing(userAgent) == FALSE

\* if userAgent == "" { return nil, ... }
UserAgentMissing(userAgent) == userAgent = EmptyString

NewClient(userAgent, opts) ==
    /\ Idle
    /\ IF UserAgentMissing(userAgent)
       THEN /\ client' = Nil
            /\ lastNew' = [called |-> TRUE, userAgent |-> userAgent, nopts |-> Len(opts),
                           applied |-> 0, failed |-> TRUE,
                           err |-> Err("userAgent is required", 0, "")]
       ELSE LET cfg == ApplyOptions(DefaultConfig(userAgent), opts)
                done == [called |-> TRUE, userAgent |-> userAgent, nopts |-> Len(opts),
                         applied |-> Len(opts), failed |-> FALSE, err |-> Nil]
            IN \E perr \in NewClientWithResponsesErrs(cfg.packagesServer),
                  rerr \in NewClientWithResponsesErrs(cfg.reposServer) :
                 IF perr
                 THEN /\ client' = Nil
                      /\ lastNew' = [done EXCEPT !.failed = TRUE,
                                       !.err = Err("creating packages client", 0, "parse")]
                 ELSE IF rerr
                 THEN /\ client' = Nil
                      /\ lastNew' = [done EXCEPT !.failed = TRUE,
                                       !.err = Err("creating repos client", 0, "parse")]
                 ELSE /\ client' = Ptr([packagesClient |-> SubClient(cfg.packagesServer, cfg),
                                        reposClient |-> SubClient(cfg.reposServer, cfg),
                                        userAgent |-> cfg.userAgent])
                      /\ lastNew' = done
    /\ stack' = << >>
    /\ pc' = "idle"
    /\ args' = NoArgs
    /\ locals' = NoLocals
    /\ requests' = << >>
    /\ responses' = << >>
    /\ ret' = NoRet

-----------------------------------------------------------------------------
(* Requests and responses of the two generated clients *)

\* The request a generated client sends for an endpoint: the request editor
\* registered with it decorates every request.
Request(sub, backend, endpoint) ==
    [backend |-> backend, server |-> sub.Server, endpoint |-> endpoint,
     headers |-> addHeaders(sub.editor),
     purls |-> << >>, registry |-> "", name |-> EmptyString,
     version |-> EmptyString, url |-> "", page |-> 0, perPage |-> 0]

PackagesRequest(endpoint) == Request(Deref(client).packagesClient, "packages", endpoint)
ReposRequest(endpoint) == Request(Deref(client).reposClient, "repos", endpoint)

\* A response as the generated client hands it over: a transport error, or a
\* status code with the bodies it decoded.
TransportErr == [err |-> TRUE, status |-> 0, JSON200 |-> Nil, JSON400 |-> Nil]
Resp(status, j200, j400) ==
    [err |-> FALSE, status |-> status, JSON200 |-> j200, JSON400 |-> j400]

FailStatuses == {201, 400, 500}

\* Common steps of a call.
Send(req) ==
    /\ requests' = Append(requests, req)
    /\ pc' = "waiting"

\* The first request of a call: the history of the call before is dropped.
SendFirst(req) ==
    /\ requests' = <<req>>
    /\ pc' = "waiting"
    /\ ret' = NoRet

\* The request in flight (the arguments of no request when none was sent).
InFlight ==
    IF requests = << >>
    THEN [purls |-> << >>, registry |-> "", name |-> EmptyString,
          version |-> EmptyString, url |-> "", page |-> 0, perPage |-> 0]
    ELSE requests[Len(requests)]

Begin(ops, a) ==
    /\ Idle
    /\ client # Nil
    /\ stack' = ops
    /\ args' = a
    /\ responses' = << >>

\* A key the result does not hold reported as an error.
LookupReturnNotFoundError(purl, val, err) ==
    IF err # Nil THEN [val |-> Nil, err |-> err]
    ELSE IF purl \in DOMAIN Deref(val) THEN [val |-> Ptr(Deref(val)[purl]), err |-> Nil]
    ELSE [val |-> Nil, err |-> Err("package not found", 0, "")]

\* Lookup's use of the BulkLookup result: results[purl], nil when absent.
LookupReturn(purl, val, err) ==
    IF err # Nil THEN [val |-> Nil, err |-> err]
    ELSE [val |-> IF purl \in DOMAIN Deref(val) THEN Ptr(Deref(val)[purl]) ELSE Nil,
          err |-> Nil]

\* What the outermost operation returns when the innermost returns (val, err):
\* the PURL-keyed wrappers return the delegate's result as it is.
WrapReturn(ops, a, val, err) ==
    IF Head(ops) = "Lookup" THEN LookupReturn(a.purls[1], val, err)
    ELSE [val |-> val, err |-> err]

Return(ops, a, val, err) ==
    /\ ret' = WrapReturn(ops, a, val, err)
    /\ pc' = "done"

Receiving(op) == pc = "waiting" /\ stack # << >> /\ stack[Len(stack)] = op

-----------------------------------------------------------------------------
(* BulkLookup and Lookup: client.go 168-217 *)

PurlPool == <<"pkg:gem/rails", "pkg:npm/lodash@4.17.21", "pkg:pypi/Requests">>

\* The PURL text the backend stores for a package.
CanonPurl(p) ==
    CASE p = "pkg:npm/lodash@4.17.21" -> "pkg:npm/lodash"
      [] p = "pkg:pypi/Requests" -> "pkg:pypi/requests"
      [] OTHER -> p

PackageName(p) ==
    CASE p = "pkg:gem/rails" -> "rails"
      [] p = "pkg:npm/lodash@4.17.21" -> "lodash"
      [] OTHER -> "requests"

\* The input list of length n: the pool over and over (a batch does not hold a
\* whole number of rounds, so no two batches of a list are alike).
PurlList(n) == [k \in 1..n |-> PurlPool[((k - 1) % Len(PurlPool)) + 1]]

BulkLengths ==
    {0, 1, 2, MaxBulkLookupSize - 1, MaxBulkLookupSize, MaxBulkLookupSize + 1,
     2 * MaxBulkLookupSize, MaxPurls} \cap 0..MaxPurls

BulkInputs == {PurlList(n) : n \in BulkLengths}

\* Bodies the backend may send for a batch: none, one record per element under
\* the element's own text, or one record per element under the stored text.
EchoRecords(batch) ==
    [k \in 1..Len(batch) |-> [Purl |-> batch[k], Name |-> PackageName(batch[k])]]
CanonRecords(batch) ==
    [k \in 1..Len(batch) |-> [Purl |-> CanonPurl(batch[k]), Name |-> PackageName(batch[k])]]

BulkResponses(batch) ==
    {TransportErr}
    \cup {Resp(StatusOK, j, Nil) : j \in {Nil, Ptr(EchoRecords(batch)), Ptr(CanonRecords(batch))}}
    \cup {Resp(s, Nil, Nil) : s \in (FailStatuses \cup {StatusNotFound}) \ {400}}
    \cup {Resp(500, Ptr(EchoRecords(batch)), Nil)}
    \cup {Resp(400, Nil, e) : e \in {Nil, Ptr([Error |-> Nil]),
                                     Ptr([Error |-> Ptr("invalid purl")])}}

\* for _, pkg := range *resp.JSON200 { results[pkg.Purl] = &p }: every record
\* is stored under its own Purl field, a later record replacing an earlier one.
MergeRecords(results, pkgs) ==
    LET keys == {pkgs[k].Purl : k \in 1..Len(pkgs)}
        last(x) == CHOOSE k \in 1..Len(pkgs) :
                       /\ pkgs[k].Purl = x
                       /\ \A j \in (k + 1)..Len(pkgs) : pkgs[j].Purl # x
    IN [x \in (DOMAIN results) \cup keys |->
           IF x \in keys THEN pkgs[last(x)] ELSE results[x]]

Min(a, b) == IF a < b THEN a ELSE b

\* The batch taken one element too early after the first.
BatchOverlap(purls, i) ==
    SubSeq(purls, IF i = 0 THEN 1 ELSE i, Min(i + MaxBulkLookupSize, Len(purls)))

\* batch := purls[i:end]
Batch(purls, i) == SubSeq(purls, i + 1, Min(i + MaxBulkLookupSize, Len(purls)))

BulkRequest(purls, i) ==
    [PackagesRequest("BulkLookupPackages") EXCEPT !.purls = Batch(purls, i)]

\* The error BulkLookup makes of a response, nil for a 200.
BulkError(resp) ==
    IF resp.err THEN Err("bulk lookup", 0, "transport")
    ELSE IF resp.status # StatusOK
    THEN IF resp.JSON400 # Nil /\ Deref(resp.JSON400).Error # Nil
         THEN Err("bulk lookup failed", 0, Deref(Deref(resp.JSON400).Error))
         ELSE Err("bulk lookup failed with status", resp.status, "")
    ELSE Nil

\* An empty list rejected as an error.
EmptyLookupRejected == [val |-> Nil, err |-> Err("no purls", 0, "")]

\* What BulkLookup returns for an empty list: an empty map, no error.
EmptyLookup == [val |-> Ptr(<< >>), err |-> Nil]

BulkLookupEnter(ops, purls) ==
    /\ Begin(ops, [NoArgs EXCEPT !.purls = purls])
    /\ locals' = NoLocals
    /\ IF Len(purls) = 0
       THEN /\ requests' = << >>
            /\ Return(ops, [NoArgs EXCEPT !.purls = purls], EmptyLookup.val, EmptyLookup.err)
       ELSE SendFirst(BulkRequest(purls, 0))
    /\ UNCHANGED <<client, lastNew>>

BulkLookup(purls) == BulkLookupEnter(<<"BulkLookup">>, purls)

Lookup(purl) == BulkLookupEnter(<<"Lookup", "BulkLookup">>, <<purl>>)

\* The rest of the loop body once the response to the batch at i is there, and
\* the loop up to the next request.
BulkLookupRecv(resp) ==
    /\ Receiving("BulkLookup")
    /\ responses' = Append(responses, resp)
    /\ IF BulkError(resp) # Nil
       THEN /\ Return(stack, args, Nil, BulkError(resp))
            /\ UNCHANGED <<locals, requests>>
       ELSE LET results == IF resp.JSON200 # Nil
                           THEN MergeRecords(locals.results, Deref(resp.JSON200))
                           ELSE locals.results
                i == locals.i + MaxBulkLookupSize
            IN /\ locals' = [locals EXCEPT !.results = results, !.i = i]
               /\ IF i < Len(args.purls)
                  THEN /\ Send(BulkRequest(args.purls, i))
                       /\ UNCHANGED ret
                  ELSE /\ Return(stack, args, Ptr(results), Nil)
                       /\ UNCHANGED requests
    /\ UNCHANGED <<client, lastNew, stack, args>>

-----------------------------------------------------------------------------
(* PURL helpers: purl.go 12-36, 81-120 *)

purlTypeToRegistry ==
    [t \in {"bitbucket", "bitnami", "generic", "github", "huggingface", "oci", "rpm"}
        |-> ""]
    @@ ("alpm" :> "archlinux.org") @@ ("apk" :> "alpine-edge")
    @@ ("bower" :> "bower.io") @@ ("cargo" :> "crates.io")
    @@ ("carthage" :> "carthage") @@ ("chef" :> "supermarket.chef.io")
    @@ ("chocolatey" :> "chocolatey.org") @@ ("clojars" :> "clojars.org")
    @@ ("cocoapods" :> "cocoapods.org") @@ ("composer" :> "packagist.org")
    @@ ("conan" :> "conan.io") @@ ("conda" :> "anaconda.org")
    @@ ("cpan" :> "metacpan.org") @@ ("cran" :> "cran.r-project.org")
    @@ ("docker" :> "hub.docker.com") @@ ("elm" :> "package.elm-lang.org")
    @@ ("gem" :> "rubygems.org") @@ ("golang" :> "proxy.golang.org")
    @@ ("hackage" :> "hackage.haskell.org") @@ ("hex" :> "hex.pm")
    @@ ("maven" :> "repo1.maven.org") @@ ("npm" :> "npmjs.org")
    @@ ("nuget" :> "nuget.org") @@ ("pub" :> "pub.dev") @@ ("pypi" :> "pypi.org")
    @@ ("swift" :> "swiftpackageindex.com") @@ ("brew" :> "formulae.brew.sh")
    @@ ("deb" :> "debian") @@ ("julia" :> "juliahub.com")
    @@ ("puppet" :> "forge.puppet.com")

\* A Go map gives the zero value for a key it does not hold.
PURLToRegistry(purl) ==
    IF purl.Type \in DOMAIN purlTypeToRegistry THEN purlTypeToRegistry[purl.Type] ELSE ""

\* The apk case left out: apk names joined like the others.
PURLToNameNoApk(purl) ==
    IF purl.Namespace = EmptyString THEN purl.Name
    ELSE CASE purl.Type = "maven" -> purl.Namespace \o <<":">> \o purl.Name
           [] OTHER -> purl.Namespace \o <<"/">> \o purl.Name

PURLToName(purl) ==
    IF purl.Namespace = EmptyString THEN purl.Name
    ELSE CASE purl.Type = "maven" -> purl.Namespace \o <<":">> \o purl.Name
           [] purl.Type = "apk" -> purl.Name
           [] OTHER -> purl.Namespace \o <<"/">> \o purl.Name

PurlTypes == {"npm", "maven", "apk", "generic", "cobol"}
Namespaces == {EmptyString, <<"n", "s">>}
Names == {<<"c", "o", "r", "e">>}
Versions == {EmptyString, <<"7", ".", "0">>}

PURLs == [Type : PurlTypes, Namespace : Namespaces, Name : Names, Version : Versions]

-----------------------------------------------------------------------------
(* Single-entity operations: client.go 219-253, 293-329 *)

DirectRegistries == {"rubygems.org", "repo1.maven.org"}
DirectNames == {<<"r", "a", "k", "e">>, <<"g", ":", "a">>}
RepoURLs == {"https://github.com/rails/rails", "https://example.org/none"}

\* The records of the backends are passed through as they are.
Records == {[id |-> "A"], [id |-> "B"]}

SingleResponses ==
    {TransportErr}
    \cup {Resp(s, j, Nil) : s \in FailStatuses \cup {StatusOK, StatusNotFound},
                            j \in {Nil} \cup {Ptr(r) : r \in Records}}

\* The 404 case forgotten: a 404 is an error like any other status.
SingleResultNo404(what, resp) ==
    IF resp.err THEN [val |-> Nil, err |-> Err(what, 0, "transport")]
    ELSE IF resp.status # StatusOK
    THEN [val |-> Nil, err |-> Err(what \o " failed with status", resp.status, "")]
    ELSE [val |-> resp.JSON200, err |-> Nil]

\* The result of a single-entity operation for a response: what is the name of
\* the operation in its error texts.
SingleResult(what, resp) ==
    IF resp.err THEN [val |-> Nil, err |-> Err(what, 0, "transport")]
    ELSE IF resp.status = StatusNotFound THEN [val |-> Nil, err |-> Nil]
    ELSE IF resp.status # StatusOK
    THEN [val |-> Nil, err |-> Err(what \o " failed with status", resp.status, "")]
    ELSE [val |-> resp.JSON200, err |-> Nil]

SingleRecv(op, what, resp) ==
    /\ Receiving(op)
    /\ responses' = Append(responses, resp)
    /\ Return(stack, args, SingleResult(what, resp).val, SingleResult(what, resp).err)
    /\ UNCHANGED <<client, lastNew, stack, args, locals, requests>>

LookupByRegistryAndNameEnter(ops, purl, registry, name) ==
    /\ Begin(ops, [NoArgs EXCEPT !.registry = registry, !.name = name, !.purl = purl])
    /\ locals' = NoLocals
    /\ SendFirst([PackagesRequest("GetRegistryPackage") EXCEPT
                     !.registry = registry, !.name = name])
    /\ UNCHANGED <<client, lastNew>>

LookupByRegistryAndName(registry, name) ==
    LookupByRegistryAndNameEnter(<<"LookupByRegistryAndName">>, Nil, registry, name)

LookupByRegistryAndNameRecv(resp) ==
    SingleRecv("LookupByRegistryAndName", "lookup", resp)

GetVersionEnter(ops, purl, registry, name, version) ==
    /\ Begin(ops, [NoArgs EXCEPT !.registry = registry, !.name = name,
                                 !.version = version, !.purl = purl])
    /\ locals' = NoLocals
    /\ SendFirst([PackagesRequest("GetRegistryPackageVersion") EXCEPT
                     !.registry = registry, !.name = name, !.version = version])
    /\ UNCHANGED <<client, lastNew>>

GetVersion(registry, name, version) ==
    GetVersionEnter(<<"GetVersion">>, Nil, registry, name, version)

GetVersionRecv(resp) == SingleRecv("GetVersion", "get version", resp)

GetRepository(url) ==
    /\ Begin(<<"GetRepository">>, [NoArgs EXCEPT !.url = url])
    /\ locals' = NoLocals
    /\ SendFirst([ReposRequest("RepositoriesLookup") EXCEPT !.url = url])
    /\ UNCHANGED <<client, lastNew>>

GetRepositoryRecv(resp) == SingleRecv("GetRepository", "lookup repository", resp)

-----------------------------------------------------------------------------
(* ListRegistries: client.go 313-329 *)

RegistryLists == {<< >>, <<[id |-> "A"]>>, <<[id |-> "A"], [id |-> "B"]>>}

ListResponses ==
    {TransportErr}
    \cup {Resp(s, j, Nil) : s \in FailStatuses \cup {StatusOK, StatusNotFound},
                            j \in {Nil} \cup {Ptr(l) : l \in RegistryLists}}

ListRegistriesResult(resp) ==
    IF resp.err THEN [val |-> << >>, err |-> Err("list registries", 0, "transport")]
    ELSE IF resp.status # StatusOK
    THEN [val |-> << >>, err |-> Err("list registries failed with status", resp.status, "")]
    ELSE IF resp.JSON200 = Nil THEN [val |-> << >>, err |-> Nil]
    ELSE [val |-> Deref(resp.JSON200), err |-> Nil]

ListRegistries ==
    /\ Begin(<<"ListRegistries">>, NoArgs)
    /\ locals' = NoLocals
    /\ SendFirst(PackagesRequest("GetRegistries"))
    /\ UNCHANGED <<client, lastNew>>

ListRegistriesRecv(resp) ==
    /\ Receiving("ListRegistries")
    /\ responses' = Append(responses, resp)
    /\ Return(stack, args, ListRegistriesResult(resp).val, ListRegistriesResult(resp).err)
    /\ UNCHANGED <<client, lastNew, stack, args, locals, requests>>

-----------------------------------------------------------------------------
(* GetAllVersions: client.go 255-291 *)

\* The backend's page: n version records, each known by the page it was served
\* for and its place in it.
VersionPage(page, n) == [k \in 1..n |-> <<page, k>>]

\* Lengths of a page after which the loop goes on, and after which it stops.
FullLengths == {PerPage, PerPage + 1}
ShortLengths == {0, 1, PerPage - 1}

\* What the backend may answer for a page.  Pages are followed up to MaxPages:
\* the last of them is answered with anything but a full page.
VersionsResponses(page) ==
    {TransportErr}
    \cup {Resp(s, j, Nil) : s \in FailStatuses \cup {StatusNotFound},
                            j \in {Nil, Ptr(VersionPage(page, PerPage))}}
    \cup {Resp(StatusOK, Nil, Nil)}
    \cup {Resp(StatusOK, Ptr(VersionPage(page, n)), Nil) :
            n \in ShortLengths \cup (IF page < MaxPages THEN FullLengths ELSE {})}

VersionsRequest(registry, name, page) ==
    [PackagesRequest("GetRegistryPackageVersions") EXCEPT
        !.registry = registry, !.name = name, !.page = page, !.perPage = PerPage]

\* The versions gathered so far returned along with the error.
VersionsStepPartial(allVersions, resp) ==
    IF resp.err
    THEN [done |-> TRUE, val |-> allVersions, err |-> Err("get versions", 0, "transport")]
    ELSE IF resp.status = StatusNotFound
    THEN [done |-> TRUE, val |-> << >>, err |-> Nil]
    ELSE IF resp.status # StatusOK
    THEN [done |-> TRUE, val |-> allVersions,
          err |-> Err("get versions failed with status", resp.status, "")]
    ELSE IF resp.JSON200 = Nil \/ Len(Deref(resp.JSON200)) = 0
    THEN [done |-> TRUE, val |-> allVersions, err |-> Nil]
    ELSE [done |-> Len(Deref(resp.JSON200)) < PerPage,
          val |-> allVersions \o Deref(resp.JSON200), err |-> Nil]

\* The loop left on an empty page only, not on a short one.
VersionsStepNoShortBreak(allVersions, resp) ==
    IF resp.err
    THEN [done |-> TRUE, val |-> << >>, err |-> Err("get versions", 0, "transport")]
    ELSE IF resp.status = StatusNotFound
    THEN [done |-> TRUE, val |-> << >>, err |-> Nil]
    ELSE IF resp.status # StatusOK
    THEN [done |-> TRUE, val |-> << >>,
          err |-> Err("get versions failed with status", resp.status, "")]
    ELSE IF resp.JSON200 = Nil \/ Len(Deref(resp.JSON200)) = 0
    THEN [done |-> TRUE, val |-> allVersions, err |-> Nil]
    ELSE [done |-> FALSE, val |-> allVersions \o Deref(resp.JSON200), err |-> Nil]

\* What one iteration of the loop does with the response to the page:
\* return (val, err), or go on to the next page with the versions so far.
VersionsStep(allVersions, resp) ==
    IF resp.err
    THEN [done |-> TRUE, val |-> << >>, err |-> Err("get versions", 0, "transport")]
    ELSE IF resp.status = StatusNotFound
    THEN [done |-> TRUE, val |-> << >>, err |-> Nil]
    ELSE IF resp.status # StatusOK
    THEN [done |-> TRUE, val |-> << >>,
          err |-> Err("get versions failed with status", resp.status, "")]
    ELSE IF resp.JSON200 = Nil \/ Len(Deref(resp.JSON200)) = 0
    THEN [done |-> TRUE, val |-> allVersions, err |-> Nil]
    ELSE [done |-> Len(Deref(resp.JSON200)) < PerPage,
          val |-> allVersions \o Deref(resp.JSON200), err |-> Nil]

GetAllVersionsEnter(ops, purl, registry, name) ==
    /\ Begin(ops, [NoArgs EXCEPT !.registry = registry, !.name = name, !.purl = purl])
    /\ locals' = [NoLocals EXCEPT !.page = 1]
    /\ SendFirst(VersionsRequest(registry, name, 1))
    /\ UNCHANGED <<client, lastNew>>

GetAllVersions(registry, name) ==
    GetAllVersionsEnter(<<"GetAllVersions">>, Nil, registry, name)

GetAllVersionsRecv(resp) ==
    /\ Receiving("GetAllVersions")
    /\ responses' = Append(responses, resp)
    /\ LET step == VersionsStep(locals.allVersions, resp)
       IN IF step.done
          THEN /\ Return(stack, args, step.val, step.err)
               /\ UNCHANGED <<locals, requests>>
          ELSE /\ locals' = [locals EXCEPT !.allVersions = step.val, !.page = @ + 1]
               /\ Send(VersionsRequest(args.registry, args.name, locals.page + 1))
               /\ UNCHANGED ret
    /\ UNCHANGED <<client, lastNew, stack, args>>

-----------------------------------------------------------------------------
(* PURL-keyed wrappers: purl.go 38-70 *)

\* A wrapper returns before any request is sent.
FailFast(ops, purl, err) ==
    /\ Begin(ops, [NoArgs EXCEPT !.purl = Ptr(purl)])
    /\ locals' = NoLocals
    /\ requests' = << >>
    /\ ret' = [val |-> Nil, err |-> err]
    /\ pc' = "done"
    /\ UNCHANGED <<client, lastNew>>

Unsupported == Err("unsupported PURL type", 0, "")
NoVersion == Err("PURL has no version", 0, "")

LookupPURL(purl) ==
    IF PURLToRegistry(purl) = ""
    THEN FailFast(<<"LookupPURL">>, purl, Unsupported)
    ELSE LookupByRegistryAndNameEnter(<<"LookupPURL", "LookupByRegistryAndName">>,
                                      Ptr(purl), PURLToRegistry(purl), PURLToName(purl))

\* The registry looked up before the version is checked.
GetVersionPURLRegistryFirst(purl) ==
    IF PURLToRegistry(purl) = ""
    THEN FailFast(<<"GetVersionPURL">>, purl, Unsupported)
    ELSE IF purl.Version = EmptyString
    THEN FailFast(<<"GetVersionPURL">>, purl, NoVersion)
    ELSE GetVersionEnter(<<"GetVersionPURL", "GetVersion">>, Ptr(purl),
                         PURLToRegistry(purl), PURLToName(purl), purl.Version)

GetVersionPURL(purl) ==
    IF purl.Version = EmptyString
    THEN FailFast(<<"GetVersionPURL">>, purl, NoVersion)
    ELSE IF PURLToRegistry(purl) = ""
    THEN FailFast(<<"GetVersionPURL">>, purl, Unsupported)
    ELSE GetVersionEnter(<<"GetVersionPURL", "GetVersion">>, Ptr(purl),
                         PURLToRegistry(purl), PURLToName(purl), purl.Version)

GetAllVersionsPURL(purl) ==
    IF PURLToRegistry(purl) = ""
    THEN FailFast(<<"GetAllVersionsPURL">>, purl, Unsupported)
    ELSE GetAllVersionsEnter(<<"GetAllVersionsPURL", "GetAllVersions">>, Ptr(purl),
                             PURLToRegistry(purl), PURLToName(purl))

-----------------------------------------------------------------------------

Init ==
    /\ client = Nil
    /\ lastNew = NoNew
    /\ stack = << >>
    /\ pc = "idle"
    /\ args = NoArgs
    /\ locals = NoLocals
    /\ requests = << >>
    /\ responses = << >>
    /\ ret = NoRet

Next ==
    \/ TakeResult
    \/ \E ua \in UserAgents \cup {EmptyString}, opts \in OptionLists : NewClient(ua, opts)
    \/ \E purls \in BulkInputs : BulkLookup(purls)
    \/ \E purl \in {PurlPool[k] : k \in 1..Len(PurlPool)} : Lookup(purl)
    \/ \E resp \in BulkResponses(InFlight.purls) : BulkLookupRecv(resp)
    \/ \E registry \in DirectRegistries, name \in DirectNames :
          LookupByRegistryAndName(registry, name)
    \/ \E resp \in SingleResponses : LookupByRegistryAndNameRecv(resp)
    \/ \E registry \in DirectRegistries, name \in DirectNames, version \in Versions :
          GetVersion(registry, name, version)
    \/ \E resp \in SingleResponses : GetVersionRecv(resp)
    \/ \E url \in RepoURLs : GetRepository(url)
    \/ \E resp \in SingleResponses : GetRepositoryRecv(resp)
    \/ \E registry \in DirectRegistries, name \in DirectNames :
          GetAllVersions(registry, name)
    \/ \E resp \in VersionsResponses(InFlight.page) : GetAllVersionsRecv(resp)
    \/ \E purl \in PURLs : LookupPURL(purl)
    \/ \E purl \in PURLs : GetVersionPURL(purl)
    \/ \E purl \in PURLs : GetAllVersionsPURL(purl)
    \/ ListRegistries
    \/ \E resp \in ListResponses : ListRegistriesRecv(resp)

Spec == Init /\ [][Next]_vars

-----------------------------------------------------------------------------
(* SupportedPURLTypes: purl.go 122-131 *)

\* The keys of purlTypeToRegistry as the table lists them.
TableKeys ==
    <<"alpm", "apk", "bitbucket", "bitnami", "bower", "cargo", "carthage", "chef",
      "chocolatey", "clojars", "cocoapods", "composer", "conan", "conda", "cpan",
      "cran", "docker", "elm", "gem", "generic", "github", "golang", "hackage",
      "hex", "huggingface", "maven", "npm", "nuget", "oci", "pub", "pypi", "rpm",
      "swift", "brew", "deb", "julia", "puppet">>

\* Go ranges over a map in an order it does not fix: the orders taken here
\* are the table's order started at any key, forwards or backwards.
Rotate(keys, k) == [i \in 1..Len(keys) |-> keys[((i - 1 + k) % Len(keys)) + 1]]
Reverse(keys) == [i \in 1..Len(keys) |-> keys[Len(keys) + 1 - i]]
RangeOrders ==
    {Rotate(TableKeys, k) : k \in 0..(Len(TableKeys) - 1)}
    \cup {Rotate(Reverse(TableKeys), k) : k \in 0..(Len(TableKeys) - 1)}

HasRegistry(t) == purlTypeToRegistry[t] # ""
AnyType(t) == TRUE

\* The filter left out: every key of the table is returned.
SupportedPURLTypesUnfiltered(order) == SelectSeq(order, AnyType)

\* for t, registry := range purlTypeToRegistry { if registry != "" { append } }
SupportedPURLTypes(order) == SelectSeq(order, HasRegistry)

-----------------------------------------------------------------------------
(* The pure helpers called on their own: purl.go 12-36, 72-79, 122-131 *)

PureTypes == (DOMAIN purlTypeToRegistry) \cup {"cobol", ""}
PureNamespaces == {EmptyString, <<"n", "s">>, <<"a", "/", "b">>}
PureNames == {<<"c", "o", "r", "e">>, <<"x">>}
PurePURLs ==
    [Type : PureTypes, Namespace : PureNamespaces, Name : PureNames, Version : Versions]

NoPURL == [Type |-> "", Namespace |-> EmptyString, Name |-> EmptyString,
           Version |-> EmptyString]

\* The input of a helper: a PURL structure or a text.
PureArgs(kind, purl, s) == [kind |-> kind, purl |-> purl, s |-> s]

PureReturn(op, val, err) ==
    /\ pc = "idle"
    /\ stack' = <<op>>
    /\ pc' = "done"
    /\ ret' = [val |-> val, err |-> err]
    /\ UNCHANGED <<client, lastNew, args, locals, requests, responses>>

PURLToRegistryCall ==
    /\ args.kind = "purl"
    /\ PureReturn("PURLToRegistry", PURLToRegistry(args.purl), Nil)

PURLToNameCall ==
    /\ args.kind = "purl"
    /\ PureReturn("PURLToName", PURLToName(args.purl), Nil)

SupportedPURLTypesCall(order) ==
    /\ args.kind = "none"
    /\ PureReturn("SupportedPURLTypes", SupportedPURLTypes(order), Nil)

-----------------------------------------------------------------------------
(* ParsePURL: purl.go 72-79 *)

Scheme == <<"p", "k", "g", ":">>

\* strings.HasPrefix
HasPrefix(s, prefix) == Len(s) >= Len(prefix) /\ SubSeq(s, 1, Len(prefix)) = prefix

\* The check for the scheme left out: the scheme is always put in front.
ParsePURLTextAlways(s) == Scheme \o s

\* The text ParsePURL hands to the parser.
ParsePURLText(s) == IF ~HasPrefix(s, Scheme) THEN Scheme \o s ELSE s

\* Places of a character in a text; the first and the last of them (0: none).
Places(s, c) == {k \in 1..Len(s) : s[k] = c}
FirstPlace(s, c) ==
    IF Places(s, c) = {} THEN 0
    ELSE CHOOSE k \in Places(s, c) : \A j \in Places(s, c) : k <= j
LastPlace(s, c) ==
    IF Places(s, c) = {} THEN 0
    ELSE CHOOSE k \in Places(s, c) : \A j \in Places(s, c) : k >= j

\* The text without the slashes it starts with.
TrimSlashes(s) ==
    LET others == {k \in 1..Len(s) : s[k] # "/"}
    IN IF others = {} THEN << >>
       ELSE SubSeq(s, CHOOSE k \in others : \A j \in others : k <= j, Len(s))

Malformed == Err("malformed purl", 0, "")

\* The parser of the packageurl package, for texts of the form
\* pkg:type/namespace/name@version (no qualifiers, no subpath): the version
\* follows the last "@", the type ends at the first "/", the name follows the
\* last "/".  The fields of the structure are kept as texts.
FromString(h) ==
    IF ~HasPrefix(h, Scheme) THEN [val |-> NoPURL, err |-> Malformed]
    ELSE LET rest == TrimSlashes(SubSeq(h, Len(Scheme) + 1, Len(h)))
             at == LastPlace(rest, "@")
             path == IF at > 0 THEN SubSeq(rest, 1, at - 1) ELSE rest
             version == IF at > 0 THEN SubSeq(rest, at + 1, Len(rest)) ELSE EmptyString
             slash == FirstPlace(path, "/")
             type == SubSeq(path, 1, slash - 1)
             tail == SubSeq(path, slash + 1, Len(path))
             last == LastPlace(tail, "/")
             name == SubSeq(tail, last + 1, Len(tail))
             namespace == SubSeq(tail, 1, last - 1)
         IN IF slash <= 1 \/ name = EmptyString
            THEN [val |-> NoPURL, err |-> Malformed]
            ELSE [val |-> [Type |-> type, Namespace |-> namespace, Name |-> name,
                           Version |-> version],
                  err |-> Nil]

ParsePURL(s) == FromString(ParsePURLText(s))

ParseBodies ==
    {<<"g", "e", "m", "/", "r", "a", "i", "l", "s", "@", "7", ".", "0", ".", "0">>,
     <<"n", "p", "m", "/", "@", "b", "a", "b", "e", "l", "/", "c", "o", "r", "e", "@", "7", ".", "2", "0", ".", "0">>,
     <<"m", "a", "v", "e", "n", "/", "g", "/", "a", "@", "3">>,
     <<"g", "e", "m", "/", "r", "a", "i", "l", "s">>,
     <<"g", "e", "m">>,
     << >>,
     <<"/", "g", "e", "m", "/", "x">>,
     <<"g", "e", "m", "/", "@", "1">>,
     <<"p", "k", "g", ":", "g", "e", "m", "/", "x">>}

ParsePrefixes ==
    {<< >>,
     <<"p", "k", "g", ":">>,
     <<"P", "K", "G", ":">>,
     <<"p", "k", "g">>,
     <<"p", "k", ":", "g">>,
     <<" ", "p", "k", "g", ":">>}

ParseInputs == {pre \o body : pre \in ParsePrefixes, body \in ParseBodies}

\* ParsePURL called: the text handed to the parser is kept.
ParsePURLCall ==
    /\ args.kind = "text"
    /\ pc = "idle"
    /\ stack' = <<"ParsePURL">>
    /\ pc' = "done"
    /\ locals' = [handed |-> ParsePURLText(args.s)]
    /\ ret' = ParsePURL(args.s)
    /\ UNCHANGED <<client, lastNew, args, requests, responses>>

InitPure ==
    /\ client = Nil
    /\ lastNew = NoNew
    /\ stack = << >>
    /\ pc = "idle"
    /\ args \in {PureArgs("purl", purl, EmptyString) : purl \in PurePURLs}
                \cup {PureArgs("text", NoPURL, s) : s \in ParseInputs}
                \cup {PureArgs("none", NoPURL, EmptyString)}
    /\ locals = NoLocals
    /\ requests = << >>
    /\ responses = << >>
    /\ ret = NoRet

NextPure ==
    \/ PURLToRegistryCall
    \/ PURLToNameCall
    \/ \E order \in RangeOrders : SupportedPURLTypesCall(order)
    \/ ParsePURLCall

SpecPure == InitPure /\ [][NextPure]_vars

-----------------------------------------------------------------------------
(* GetAllVersions against a backend that may answer any page with a full page *)

\* What a backend that is not bound to MaxPages may answer for a page.
VersionsResponsesAny(page) ==
    VersionsResponses(page)
    \cup {Resp(StatusOK, Ptr(VersionPage(page, n)), Nil) : n \in FullLengths}

\* The loop body as in GetAllVersionsRecv.  From page MaxPages on, the page
\* number, the versions gathered and the histories are not extended any more
\* (the loop reads none of them to decide whether it goes on): only the last
\* response is kept, so that pages without end are a cycle of finitely many
\* states.
GetAllVersionsRecvAny(resp) ==
    /\ Receiving("GetAllVersions")
    /\ responses' = IF Len(responses) < MaxPages THEN Append(responses, resp)
                    ELSE [responses EXCEPT ![MaxPages] = resp]
    /\ LET step == VersionsStep(locals.allVersions, resp)
       IN IF step.done
          THEN /\ Return(stack, args, step.val, step.err)
               /\ UNCHANGED <<locals, requests>>
          ELSE IF locals.page < MaxPages
          THEN /\ locals' = [locals EXCEPT !.allVersions = step.val, !.page = @ + 1]
               /\ Send(VersionsRequest(args.registry, args.name, locals.page + 1))
               /\ UNCHANGED ret
          ELSE UNCHANGED <<locals, requests, pc, ret>>
    /\ UNCHANGED <<client, lastNew, stack, args>>

NextLive ==
    \/ TakeResult
    \/ \E ua \in UserAgents \cup {EmptyString}, opts \in OptionLists : NewClient(ua, opts)
    \/ \E registry \in DirectRegistries, name \in DirectNames :
          GetAllVersions(registry, name)
    \/ \E resp \in VersionsResponsesAny(InFlight.page) : GetAllVersionsRecvAny(resp)

\* Every request is answered: the call blocks until its response is there.
SpecLive ==
    /\ Init
    /\ [][NextLive]_vars
    /\ WF_vars(\E resp \in VersionsResponsesAny(InFlight.page) : GetAllVersionsRecvAny(resp))

-----------------------------------------------------------------------------
(* Properties *)

Inner == IF stack = << >> THEN "" ELSE stack[Len(stack)]
Outer == IF stack = << >> THEN "" ELSE Head(stack)
Done == pc = "done"

\* The elements of purls at the 0-based positions lo .. hi-1, in order.
Slice(purls, lo, hi) == [j \in 1..(hi - lo) |-> purls[lo + j]]

RECURSIVE ConcatBatches(_)
ConcatBatches(reqs) ==
    IF reqs = << >> THEN << >> ELSE Head(reqs).purls \o ConcatBatches(Tail(reqs))

BulkFailed(r) == r.err \/ r.status # 200
VersionsFailed(r) == r.err \/ (r.status # 200 /\ r.status # 404)

\* C1: BulkLookup sends its batches one at a time, batch k being the input
\* elements at positions 100*(k-1) .. min(100*k, n)-1 in input order (1 to 100
\* elements); when no batch fails it has sent exactly ceil(n/100) requests and
\* the batches concatenated in sending order are the input list.
C1_Batching ==
    Inner = "BulkLookup" =>
        LET n == Len(args.purls)
        IN /\ Len(responses) <= Len(requests)
           /\ Len(requests) <= Len(responses) + 1
           /\ (Len(requests) = Len(responses) + 1) <=> (pc = "waiting")
           /\ \A k \in 1..Len(requests) :
                /\ requests[k].endpoint = "BulkLookupPackages"
                /\ 100 * (k - 1) < n
                /\ requests[k].purls
                     = Slice(args.purls, 100 * (k - 1), IF 100 * k < n THEN 100 * k ELSE n)
                /\ Len(requests[k].purls) \in 1..100
           /\ (Done /\ \A k \in 1..Len(responses) : ~BulkFailed(responses[k]))
                => /\ Len(requests) = (n + 99) \div 100
                   /\ ConcatBatches(requests) = args.purls

C1_Witness ==
    /\ Done /\ Outer = "BulkLookup" /\ Len(args.purls) = 250
    /\ ret.err = Nil
    /\ Len(requests) = 3
    /\ Len(requests[1].purls) = 100 /\ Len(requests[2].purls) = 100
    /\ Len(requests[3].purls) = 50

\* C2: every key of the mapping a successful BulkLookup returns is one of the
\* strings of the input list, whatever PURL text the backend's records carry.
C2_KeysAreInputs ==
    (Done /\ Outer = "BulkLookup" /\ ret.err = Nil)
        => DOMAIN Deref(ret.val) \subseteq {args.purls[k] : k \in 1..Len(args.purls)}

\* C3: the first failed batch of BulkLookup (transport error or status other
\* than 200) and the first failed page of GetAllVersions (transport error or
\* status other than 200 and 404) end the call: it is the last response, no
\* request follows it, and the call returns an error and no result.
C3_AbortOnFirstFailure ==
    \A k \in 1..Len(responses) :
        (\/ Inner = "BulkLookup" /\ BulkFailed(responses[k])
         \/ Inner = "GetAllVersions" /\ VersionsFailed(responses[k]))
        => /\ k = Len(responses)
           /\ Len(requests) = k
           /\ Done
           /\ ret.err # Nil
           /\ ret.val = Nil

C3_Witness ==
    /\ Done /\ Len(responses) = 2
    /\ \/ Inner = "BulkLookup" /\ BulkFailed(responses[2])
       \/ Inner = "GetAllVersions" /\ VersionsFailed(responses[2])
    /\ ret.err # Nil

\* C4: BulkLookup on an empty list returns an empty mapping and no error, and
\* sends no request.
C4_EmptyInput ==
    (Done /\ Outer = "BulkLookup" /\ Len(args.purls) = 0)
        => /\ ret.err = Nil
           /\ ret.val # Nil
           /\ DOMAIN Deref(ret.val) = {}
           /\ requests = << >>
           /\ responses = << >>

C4_Witness == Done /\ Outer = "BulkLookup" /\ Len(args.purls) = 0 /\ client # Nil

SingleOps == {"LookupByRegistryAndName", "GetVersion", "GetRepository"}

\* C5: a single-entity operation sends exactly one request; a 404 gives the
\* absent result and no error, another status outside 200..299 an error with
\* that status and no record, a 200 the backend's record and no error; never
\* a record and an error together.
C5_SingleEntity ==
    Inner \in SingleOps =>
        /\ Len(requests) = 1
        /\ Done =>
            LET r == responses[1]
            IN /\ Len(responses) = 1
               /\ (~r.err /\ r.status = 404) => (ret.val = Nil /\ ret.err = Nil)
               /\ (~r.err /\ r.status # 404 /\ r.status \notin 200..299)
                    => /\ ret.val = Nil
                       /\ ret.err # Nil
                       /\ Deref(ret.err).status = r.status
               /\ (~r.err /\ r.status = 200) => (ret.val = r.JSON200 /\ ret.err = Nil)
               /\ ~(ret.val # Nil /\ ret.err # Nil)

C5_Witness ==
    /\ Done /\ Inner = "GetRepository"
    /\ ~responses[1].err /\ responses[1].status = 404
    /\ responses[1].JSON200 # Nil
    /\ ret = [val |-> Nil, err |-> Nil]

RECURSIVE ConcatPages(_)
ConcatPages(resps) ==
    IF resps = << >> THEN << >>
    ELSE (IF ~Head(resps).err /\ Head(resps).status = 200 /\ Head(resps).JSON200 # Nil
          THEN Deref(Head(resps).JSON200) ELSE << >>)
         \o ConcatPages(Tail(resps))

FullPage(r) == ~r.err /\ r.status = 200 /\ r.JSON200 # Nil /\ Len(Deref(r.JSON200)) >= 100
LastPage(r) == ~r.err /\ r.status = 200 /\ (r.JSON200 = Nil \/ Len(Deref(r.JSON200)) < 100)

\* C6: GetAllVersions requests pages 1, 2, 3, ... in order, each with page size
\* 100, one at a time; page k+1 only after page k came back with status 200 and
\* at least 100 records; after the first page with fewer than 100 records (or
\* none) it sends no further request and returns.
C6_Pagination ==
    Inner = "GetAllVersions" =>
        /\ Len(responses) <= Len(requests)
        /\ Len(requests) <= Len(responses) + 1
        /\ \A k \in 1..Len(requests) :
             /\ requests[k].endpoint = "GetRegistryPackageVersions"
             /\ requests[k].page = k
             /\ requests[k].perPage = 100
             /\ requests[k].registry = args.registry
             /\ requests[k].name = args.name
             /\ k > 1 => FullPage(responses[k - 1])
        /\ \A k \in 1..Len(responses) :
             LastPage(responses[k])
                => (k = Len(responses) /\ Len(requests) = k /\ Done /\ ret.err = Nil)

C6_Witness ==
    /\ Done /\ Inner = "GetAllVersions"
    /\ Len(requests) = 2 /\ requests[2].page = 2
    /\ FullPage(responses[1]) /\ LastPage(responses[2])
    /\ responses[2].JSON200 # Nil
    /\ Len(Deref(responses[2].JSON200)) = 99
    /\ Len(ret.val) = 199

\* C7: whenever GetAllVersions returns without an error, the sequence it returns
\* is the records of every page it received with status 200, in request order,
\* each page's records in the backend's order, nothing dropped or duplicated.
C7_Concatenation ==
    (Done /\ Inner = "GetAllVersions" /\ ret.err = Nil) => ret.val = ConcatPages(responses)

Wrappers == {"LookupPURL", "GetVersionPURL", "GetAllVersionsPURL"}

\* Every request of the call is for the registry and the name the mapper gives.
DelegatesMapped(purl) ==
    /\ requests # << >>
    /\ \A k \in 1..Len(requests) :
         /\ requests[k].registry = PURLToRegistry(purl)
         /\ requests[k].name = PURLToName(purl)
    /\ ~(Done /\ ret.err \in {Unsupported, NoVersion})

FailedFast(err) == Done /\ ret.val = Nil /\ ret.err = err /\ requests = << >>

\* C8 as it is written: every wrapper returns the unsupported-ecosystem error
\* without a request when the type has no registry, GetVersionPURL returns the
\* missing-version error without a request when the version is empty, and
\* otherwise the requests carry PURLToRegistry(purl) and PURLToName(purl).
C8_AsWritten ==
    Outer \in Wrappers =>
        LET purl == Deref(args.purl)
            unsupported == PURLToRegistry(purl) = ""
            noVersion == Outer = "GetVersionPURL" /\ purl.Version = EmptyString
        IN /\ unsupported => FailedFast(Unsupported)
           /\ noVersion => FailedFast(NoVersion)
           /\ (~unsupported /\ ~noVersion) => DelegatesMapped(purl)

\* C8 amended: GetVersionPURL checks the version first, so it returns the
\* missing-version error whenever the version is empty, and the
\* unsupported-ecosystem error when the version is not empty and the type has
\* no registry; LookupPURL and GetAllVersionsPURL return the
\* unsupported-ecosystem error when the type has no registry; all without a
\* request; otherwise the requests carry PURLToRegistry(purl), PURLToName(purl).
C8_FailFast ==
    Outer \in Wrappers =>
        LET purl == Deref(args.purl)
            unsupported == PURLToRegistry(purl) = ""
            noVersion == Outer = "GetVersionPURL" /\ purl.Version = EmptyString
        IN /\ (unsupported /\ ~noVersion) => FailedFast(Unsupported)
           /\ noVersion => FailedFast(NoVersion)
           /\ (~unsupported /\ ~noVersion) => DelegatesMapped(purl)

C8_Witness ==
    /\ Outer = "GetVersionPURL"
    /\ Deref(args.purl).Version = EmptyString
    /\ PURLToRegistry(Deref(args.purl)) = ""
    /\ FailedFast(NoVersion)

HeaderValues(req, name) == {h[2] : h \in {x \in req.headers : x[1] = name}}

\* C9: every request, to either backend, carries User-Agent equal to the
\* non-empty string given at construction, From exactly when a non-empty
\* contact string was configured (with that string), and Authorization exactly
\* when a non-empty key was configured, with value "Bearer " and the key.
C9_Headers ==
    \A k \in 1..Len(requests) :
        LET req == requests[k]
            sub == IF req.backend = "repos" THEN Deref(client).reposClient
                   ELSE Deref(client).packagesClient
            cfg == sub.editor
        IN /\ req.backend \in {"packages", "repos"}
           /\ req.backend = "repos" <=> Inner = "GetRepository"
           /\ lastNew.userAgent # EmptyString
           /\ HeaderValues(req, "User-Agent") = {lastNew.userAgent}
           /\ HeaderValues(req, "From")
                = (IF cfg.fromEmail # EmptyString THEN {cfg.fromEmail} ELSE {})
           /\ HeaderValues(req, "Authorization")
                = (IF cfg.apiKey # EmptyString
                   THEN {<<"B", "e", "a", "r", "e", "r", " ">> \o cfg.apiKey} ELSE {})
           /\ {h[1] : h \in req.headers} \subseteq {"User-Agent", "From", "Authorization"}

C9_Witness ==
    /\ requests # << >>
    /\ requests[1].backend = "repos"
    /\ HeaderValues(requests[1], "Authorization") # {}

\* C10: NewClient with an empty identifying string fails and returns no client,
\* whatever the options, before any option is applied and without any request;
\* with a non-empty string and no options it returns a client whose userAgent
\* is that string.
C10_NewClient ==
    lastNew.called =>
        /\ lastNew.userAgent = EmptyString
             => /\ lastNew.failed /\ lastNew.err # Nil
                /\ client = Nil
                /\ lastNew.applied = 0
                /\ requests = << >>
        /\ (lastNew.userAgent # EmptyString /\ lastNew.nopts = 0)
             => /\ ~lastNew.failed /\ lastNew.err = Nil
                /\ client # Nil
                /\ Deref(client).userAgent = lastNew.userAgent

C10_Witness ==
    /\ lastNew.called /\ lastNew.userAgent = EmptyString /\ lastNew.nopts > 0
    /\ lastNew.failed /\ client = Nil

\* C11: PURLToName gives the name unchanged when the namespace is empty, for
\* every type; with a namespace it gives namespace ":" name for maven, the bare
\* name for apk and namespace "/" name for every other type, mapped to a
\* registry or not; the version does not enter into it.
C11_JoinRule ==
    (Done /\ Outer = "PURLToName") =>
        LET p == args.purl
        IN /\ p.Namespace = << >> => ret.val = p.Name
           /\ (p.Namespace # << >> /\ p.Type = "maven")
                => ret.val = p.Namespace \o <<":">> \o p.Name
           /\ (p.Namespace # << >> /\ p.Type = "apk") => ret.val = p.Name
           /\ (p.Namespace # << >> /\ p.Type \notin {"maven", "apk"})
                => ret.val = p.Namespace \o <<"/">> \o p.Name
           /\ \A v \in Versions \cup {<<"9">>} :
                PURLToName([p EXCEPT !.Version = v]) = ret.val

C11_Witness ==
    /\ Done /\ Outer = "PURLToName"
    /\ args.purl.Type = "apk" /\ args.purl.Namespace = <<"n", "s">>
    /\ args.purl.Name = <<"c", "o", "r", "e">>
    /\ ret.val = <<"c", "o", "r", "e">>

\* C12: a tag is in the result of SupportedPURLTypes exactly when PURLToRegistry
\* of a PURL of that type is not empty; the tags the table maps to "" and the
\* tags it does not hold give the empty registry and are left out; the result
\* is not empty, has no duplicates and holds npm, gem, pypi, maven, cargo and
\* golang.  PURLToRegistry depends on the type alone.
C12_SupportedTypes ==
    /\ (Done /\ Outer = "SupportedPURLTypes") =>
          LET res == ret.val
              tags == {res[k] : k \in 1..Len(res)}
              registry(t) == PURLToRegistry([NoPURL EXCEPT !.Type = t])
          IN /\ \A t \in PureTypes \cup tags : t \in tags <=> registry(t) # ""
             /\ \A t \in {"bitbucket", "bitnami", "generic", "github", "huggingface",
                          "oci", "rpm", "cobol", ""} :
                  t \notin tags /\ registry(t) = ""
             /\ tags # {}
             /\ Len(res) = Cardinality(tags)
             /\ {"npm", "gem", "pypi", "maven", "cargo", "golang"} \subseteq tags
    /\ (Done /\ Outer = "PURLToRegistry") =>
          \A q \in PurePURLs : q.Type = args.purl.Type => PURLToRegistry(q) = ret.val

C12_Witness ==
    /\ Done /\ Outer = "SupportedPURLTypes"
    /\ Len(ret.val) = 30
    /\ ret.val[1] = "puppet" /\ ret.val[30] = "alpm"

\* C13: for a text s that does not start with "pkg:", ParsePURL(s) has the
\* outcome of ParsePURL("pkg:" + s) (the same structure, or an error in both);
\* a text that starts with "pkg:" is handed to the parser as it is, so the
\* scheme is never put in front twice.
C13_SchemeTolerance ==
    (Done /\ Outer = "ParsePURL") =>
        LET s == args.s
            pkg == <<"p", "k", "g", ":">>
            prefixed == Len(s) >= 4 /\ SubSeq(s, 1, 4) = pkg
        IN /\ ~prefixed => /\ locals.handed = pkg \o s
                           /\ ret = ParsePURL(pkg \o s)
           /\ prefixed => locals.handed = s

C13_Witness ==
    /\ Done /\ Outer = "ParsePURL"
    /\ args.s = <<"g", "e", "m", "/", "r", "a", "i", "l", "s", "@", "7", ".", "0", ".", "0">>
    /\ ret.err = Nil
    /\ ret.val = [Type |-> <<"g", "e", "m">>, Namespace |-> << >>,
                  Name |-> <<"r", "a", "i", "l", "s">>,
                  Version |-> <<"7", ".", "0", ".", "0">>]

\* C14: Lookup(p) sends exactly one bulk request, whose batch is p alone; it
\* returns an error and no record exactly when that bulk lookup fails;
\* otherwise it returns the record the bulk result holds under the key p, or
\* the absent result without an error when the bulk result has no such key.
C14_Lookup ==
    Outer = "Lookup" =>
        /\ Len(args.purls) = 1
        /\ Len(requests) = 1
        /\ requests[1].endpoint = "BulkLookupPackages"
        /\ requests[1].purls = <<args.purls[1]>>
        /\ Done =>
            LET p == args.purls[1]
                failed == BulkFailed(responses[1])
            IN /\ Len(responses) = 1
               /\ (ret.err # Nil) <=> failed
               /\ failed => ret.val = Nil
               /\ ~failed => ret.val = (IF p \in DOMAIN locals.results
                                        THEN Ptr(locals.results[p]) ELSE Nil)

C14_Witness ==
    /\ Done /\ Outer = "Lookup"
    /\ ~BulkFailed(responses[1])
    /\ responses[1].JSON200 # Nil
    /\ args.purls[1] \notin DOMAIN locals.results
    /\ ret = [val |-> Nil, err |-> Nil]

\* C15: GetAllVersions always eventually returns, whatever the backend answers,
\* as long as every request is answered.
C15_Terminates == (Inner = "GetAllVersions" /\ pc = "waiting") ~> Done

====
